---- MODULE Spec2Model ----
(***************************************************************************)
(* Model of jmongo's entity package: the reflective Entity resolver        *)
(* (entity.go, field.go) and the type-keyed metadata cache behind          *)
(* GetOrParse (a sync.Map read lock-free, written under one sync.Mutex).   *)
(***************************************************************************)
EXTENDS Integers, Sequences, FiniteSets, TLC

\* ------------------------------------------------------------------ bounds
NumThreads == 2          \* goroutines calling GetOrParse concurrently
MaxFields == 2           \* declared fields of a drawn struct type

Threads == 1..NumThreads

\* ------------------------------------------------------------- Go values
Nil == <<>>                               \* nil pointer / nil interface / nil error
ErrUnsupportedDataType == [error |-> "unsupported data type"]
ErrIdFieldDoesNotExists == [error |-> "id field does not exists"]

\* A reflect.Type: the wrapper kinds from the outside in, around a base type.
\* A base type is a struct [kind, name, pkg, fields, tabler] or a builtin;
\* tabler is <<name>> when the type implements CollectionNameSupplier.
StructType(name, fields, tabler) ==
    [kind |-> "struct", name |-> name, pkg |-> "model", fields |-> fields, tabler |-> tabler]

IntType == [kind |-> "int", name |-> "int", pkg |-> "", fields |-> <<>>, tabler |-> Nil]

TypeOf(wrap, base) == [wrap |-> wrap, base |-> base]

\* reflect.Type.Kind and reflect.Type.Elem
Kind(ty) == IF ty.wrap # <<>> THEN Head(ty.wrap) ELSE ty.base.kind

Elem(ty) == [ty EXCEPT !.wrap = Tail(@)]

\* A declared struct field: its Go name, its raw bson tag and its type.
DeclOf(name, tag, type) == [Name |-> name, Tag |-> tag, Type |-> type]

\* A declared field of a builtin type.
Decl(name, tag) == DeclOf(name, tag, TypeOf(<<>>, IntType))

\* ------------------------------------------------- collaborators (not in src)
\* utils.LowerFirst on the names this model uses.
LowerFirst(s) ==
    CASE s = "Id" -> "id"
      [] s = "Key" -> "key"
      [] s = "Name" -> "name"
      [] s = "User" -> "user"
      [] s = "Order" -> "order"
      [] s = "Note" -> "note"
      [] s = "Probe" -> "probe"
      [] s = "A" -> "a"
      [] s = "B" -> "b"
      [] s = "C" -> "c"
      [] s = "Inner" -> "inner"
      [] OTHER -> s

\* parseTags(defaultName, tag): "" keeps the default key, "-" skips the field,
\* ",inline" keeps the default key and sets the inline flag, anything else is
\* the explicit key name.
parseTags(defaultName, tag) ==
    [Name |-> IF tag \in {"", "-", ",inline"} THEN defaultName ELSE tag,
     Skip |-> tag = "-",
     Inline |-> tag = ",inline"]

\* --------------------------------------------------------------- field.go
\* A Go value: an int, a struct of field values, or a pointer; to is <<>>
\* for a nil pointer and <<v>> for a pointer to v.
IntV(n) == [kind |-> "int", val |-> n, fields |-> <<>>, to |-> <<>>]

StructV(fs) == [kind |-> "struct", val |-> 0, fields |-> fs, to |-> <<>>]

PtrV(to) == [kind |-> "ptr", val |-> 0, fields |-> <<>>, to |-> to]

\* reflect.Zero / reflect.New(t).Elem(): the zero value of a type.
RECURSIVE ZeroV(_)
ZeroV(ty) ==
    IF Kind(ty) = "ptr" THEN PtrV(<<>>)
    ELSE IF Kind(ty) = "struct"
         THEN StructV([i \in 1..Len(ty.base.fields) |-> ZeroV(ty.base.fields[i].Type)])
         ELSE IntV(0)

\* reflect.Value.IsNil and reflect.Value.IsZero
IsNil(v) == v.to = <<>>

RECURSIVE IsZero(_)
IsZero(v) ==
    IF v.kind = "ptr" THEN IsNil(v)
    ELSE IF v.kind = "struct" THEN \A i \in 1..Len(v.fields) : IsZero(v.fields[i])
    ELSE v.val = 0

\* An addressable reflect.Value is a route into the instance and its type:
\* entry i >= 0 of the route is Field(i), entry -1 is Elem().
Deref == 0 - 1

RECURSIVE ReadAt(_, _)
ReadAt(obj, route) ==
    IF route = <<>> THEN obj
    ELSE IF Head(route) = Deref THEN ReadAt(obj.to[1], Tail(route))
    ELSE ReadAt(obj.fields[Head(route) + 1], Tail(route))

\* reflect.Value.Set through a route
RECURSIVE SetAt(_, _, _)
SetAt(obj, route, x) ==
    IF route = <<>> THEN x
    ELSE IF Head(route) = Deref
         THEN [obj EXCEPT !.to = <<SetAt(obj.to[1], Tail(route), x)>>]
         ELSE [obj EXCEPT !.fields[Head(route) + 1] = SetAt(@, Tail(route), x)]

\* reflect.Indirect(value): the root struct of the instance.
Indirect(rootType) == [route |-> <<>>, ty |-> rootType, panic |-> FALSE]

PanicValue == [route |-> <<>>, ty |-> Nil, panic |-> TRUE]

\* reflect.Value.Field(i): panics on a value that is not a struct and on an
\* index out of range.
Field(v, i) ==
    IF v.panic THEN PanicValue
    ELSE IF Kind(v.ty) # "struct" THEN PanicValue
    ELSE IF i < 0 \/ i >= Len(v.ty.base.fields) THEN PanicValue
    ELSE [route |-> Append(v.route, i), ty |-> v.ty.base.fields[i + 1].Type, panic |-> FALSE]

\* fieldValue.Interface(), fieldValue.IsZero()
Interface(obj, v) ==
    IF v.panic THEN [val |-> Nil, zero |-> FALSE, panic |-> TRUE]
    ELSE [val |-> ReadAt(obj, v.route), zero |-> IsZero(ReadAt(obj, v.route)), panic |-> FALSE]

\* return nil, true
Absent == [val |-> Nil, zero |-> TRUE, panic |-> FALSE]

\* ValueOf, case len(index) == 1 (lines 72-76)
valueOfField(index, rootType, obj) == Interface(obj, Field(Indirect(rootType), index[1]))

\* ValueOf, case len(index) == 2 && index[0] >= 0 (lines 77-81)
valueOfNested(index, rootType, obj) ==
    Interface(obj, Field(Field(Indirect(rootType), index[1]), index[2]))

\* ValueOf, default case (lines 82-104): the loop from entry k of index on,
\* with v the value reached so far.
RECURSIVE valueOfWalkFrom(_, _, _, _)
valueOfWalkFrom(index, k, obj, v) ==
    IF v.panic THEN Interface(obj, v)
    ELSE IF k > Len(index) THEN Interface(obj, v)
    ELSE IF index[k] >= 0 THEN valueOfWalkFrom(index, k + 1, obj, Field(v, index[k]))
    ELSE LET f == Field(v, (0 - index[k]) - 1)
         IN  IF f.panic \/ Kind(f.ty) # "ptr" THEN Interface(obj, PanicValue)
             ELSE IF Kind(Elem(f.ty)) = "struct" /\ ~IsNil(ReadAt(obj, f.route))
                  THEN valueOfWalkFrom(index, k + 1, obj,
                         [route |-> Append(f.route, Deref), ty |-> Elem(f.ty), panic |-> FALSE])
                  ELSE Absent

\* The walk returning absent at every pointer link, nil or not.
valueOfWalk_StopsAtPointer(index, rootType, obj) ==
    IF \E k \in 1..Len(index) : index[k] < 0 THEN Absent
    ELSE valueOfWalkFrom(index, 1, obj, Indirect(rootType))

valueOfWalk(index, rootType, obj) == valueOfWalkFrom(index, 1, obj, Indirect(rootType))

\* ReflectValueOf, case len(index) == 1 (lines 109-119): both branches return
\* the field itself.
reflectOfField(index, rootType, obj) ==
    [loc |-> Field(Indirect(rootType), index[1]), obj |-> obj]

\* ReflectValueOf, case len(index) == 2 && index[0] >= 0 && not a pointer
\* field (lines 120-123)
reflectOfNested(index, rootType, obj) ==
    [loc |-> Field(Field(Indirect(rootType), index[1]), index[2]), obj |-> obj]

\* reflect.New(v.Type().Elem()) stored by v.Set when v is a nil pointer to a
\* struct (lines 135-139); doAlloc is FALSE only in the variant that forgets it.
AllocIfNil(obj, f, doAlloc) ==
    IF doAlloc /\ Kind(Elem(f.ty)) = "struct" /\ IsNil(ReadAt(obj, f.route))
    THEN SetAt(obj, f.route, PtrV(<<ZeroV(Elem(f.ty))>>))
    ELSE obj

\* ReflectValueOf, default case (lines 124-147): the loop from entry k on.
RECURSIVE reflectOfWalkFrom(_, _, _, _, _)
reflectOfWalkFrom(index, k, obj, v, doAlloc) ==
    IF v.panic THEN [loc |-> v, obj |-> obj]
    ELSE IF k > Len(index) THEN [loc |-> v, obj |-> obj]
    ELSE LET f == IF index[k] >= 0 THEN Field(v, index[k])
                  ELSE Field(v, (0 - index[k]) - 1)
         IN  IF f.panic THEN [loc |-> f, obj |-> obj]
             ELSE IF Kind(f.ty) # "ptr"
                  THEN reflectOfWalkFrom(index, k + 1, obj, f, doAlloc)
             ELSE LET linked == AllocIfNil(obj, f, doAlloc)
                  IN  IF k = Len(index) THEN [loc |-> f, obj |-> linked]
                      ELSE IF IsNil(ReadAt(linked, f.route))
                           THEN [loc |-> PanicValue, obj |-> linked]
                           ELSE reflectOfWalkFrom(index, k + 1, linked,
                                  [route |-> Append(f.route, Deref), ty |-> Elem(f.ty),
                                   panic |-> FALSE], doAlloc)

\* The walk without the v.Set(reflect.New(..)) of lines 137-139.
reflectOfWalk_NoAlloc(index, rootType, obj) ==
    reflectOfWalkFrom(index, 1, obj, Indirect(rootType), FALSE)

reflectOfWalk(index, rootType, obj) ==
    reflectOfWalkFrom(index, 1, obj, Indirect(rootType), TRUE)

\* setupValuerAndSetter: which closure each of the two switches picks.
setupValuerAndSetter(index, fieldType) ==
    [valueOf |-> IF Len(index) = 1 THEN "field"
                 ELSE IF Len(index) = 2 /\ index[1] >= 0 THEN "nested"
                 ELSE "walk",
     reflectOf |-> IF Len(index) = 1 THEN "field"
                   ELSE IF Len(index) = 2 /\ index[1] >= 0 /\ Kind(fieldType) # "ptr"
                        THEN "nested"
                   ELSE "walk"]

\* EntityField.ValueOf(value) and EntityField.ReflectValueOf(value): calling
\* the closures setupValuerAndSetter returned.
ValueOf(index, fieldType, rootType, obj) ==
    LET shape == setupValuerAndSetter(index, fieldType).valueOf
    IN  IF shape = "field" THEN valueOfField(index, rootType, obj)
        ELSE IF shape = "nested" THEN valueOfNested(index, rootType, obj)
        ELSE valueOfWalk(index, rootType, obj)

ReflectValueOf(index, fieldType, rootType, obj) ==
    LET shape == setupValuerAndSetter(index, fieldType).reflectOf
    IN  IF shape = "field" THEN reflectOfField(index, rootType, obj)
        ELSE IF shape = "nested" THEN reflectOfNested(index, rootType, obj)
        ELSE reflectOfWalk(index, rootType, obj)

\* newField: the EntityField literal of lines 46-59. The struct has no Entity
\* member (line 14 is commented out), so every field reads Entity as nil; the
\* accessor closures capture inlineIndex.
newField(structField, structTags, inlineIndex) ==
    [Name |-> structField.Name,
     DBName |-> structTags.Name,
     Id |-> structTags.Name = "_id",
     FieldType |-> structField.Type,
     index |-> IF Len(inlineIndex) > 0 THEN inlineIndex[Len(inlineIndex)] ELSE 0,
     path |-> inlineIndex,
     Entity |-> Nil]

\* -------------------------------------------------------------- entity.go
\* extractFields, iteration i .. NumField of the loop of lines 100-130, with
\* the accumulated (fields, allFields).
RECURSIVE extractFieldsFrom(_, _, _, _)
extractFieldsFrom(decls, index, i, acc) ==
    IF i > Len(decls) THEN acc
    ELSE LET cloneIndex == Append(index, i - 1)
             structTags == parseTags(LowerFirst(decls[i].Name), decls[i].Tag)
             field == newField(decls[i], structTags, cloneIndex)
         IN  IF structTags.Skip
             THEN extractFieldsFrom(decls, index, i + 1, acc)
             ELSE extractFieldsFrom(decls, index, i + 1,
                    [fields |-> Append(acc.fields, field),
                     allFields |-> IF field.Entity # Nil
                                   THEN acc.allFields \o field.Entity.Fields
                                   ELSE Append(acc.allFields, field)])

extractFields(modelType, index) ==
    extractFieldsFrom(modelType.base.fields, index, 1, [fields |-> <<>>, allFields |-> <<>>])

\* extractIdField taking the first field whether or not it is marked Id.
extractIdField_FirstField(fields) == IF fields = <<>> THEN Nil ELSE Head(fields)

\* extractIdField: depth-first scan for the first field marked Id.
RECURSIVE extractIdField(_)
extractIdField(fields) ==
    IF fields = <<>> THEN Nil
    ELSE LET field == Head(fields)
         IN  IF field.Entity # Nil
             THEN LET idField == extractIdField(field.Entity.Fields)
                  IN  IF idField # Nil THEN idField ELSE extractIdField(Tail(fields))
             ELSE IF field.Id THEN field ELSE extractIdField(Tail(fields))

\* Go map read `v, ok := m[k]` and write `m[k] = v`.
MapGet(m, k) == [v |-> IF k \in DOMAIN m THEN m[k] ELSE Nil, ok |-> k \in DOMAIN m]

MapPut(m, k, v) == [x \in DOMAIN m \cup {k} |-> IF x = k THEN v ELSE m[x]]

EmptyMap == [x \in {} |-> Nil]

\* makeFieldsByNameAndByDBName: on a miss the code stores v, the value the
\* failed lookup returned (lines 161-167).
RECURSIVE makeFieldsFrom(_, _, _)
makeFieldsFrom(fields, i, acc) ==
    IF i > Len(fields) THEN acc
    ELSE LET field == fields[i]
             byDB == MapGet(acc.fieldsByDBName, field.DBName)
             byName == MapGet(acc.fieldsByName, field.Name)
         IN  makeFieldsFrom(fields, i + 1,
               [fieldsByDBName |-> IF ~byDB.ok
                                   THEN MapPut(acc.fieldsByDBName, field.DBName, byDB.v)
                                   ELSE acc.fieldsByDBName,
                fieldsByName |-> IF ~byName.ok
                                 THEN MapPut(acc.fieldsByName, field.Name, byName.v)
                                 ELSE acc.fieldsByName])

makeFieldsByNameAndByDBName(fields) ==
    makeFieldsFrom(fields, 1, [fieldsByName |-> EmptyMap, fieldsByDBName |-> EmptyMap])

\* The strip loop of lines 42-44 and 201-203.
RECURSIVE StripWrappers(_)
StripWrappers(ty) ==
    IF Kind(ty) = "slice" \/ Kind(ty) = "array" \/ Kind(ty) = "ptr"
    THEN StripWrappers(Elem(ty))
    ELSE ty

\* GetModelType stripping one wrapper layer only.
GetModelType_OneLayer(dest) ==
    IF Kind(dest) = "slice" \/ Kind(dest) = "array" \/ Kind(dest) = "ptr"
    THEN Elem(dest)
    ELSE dest

\* GetModelType, for a dest that is not the nil interface.
GetModelType(dest) == StripWrappers(dest)

\* newEntityByModelType after its cache check: lines 58-94, for a struct type.
\* The result is the Entity value (or nil) and the error.
BuildEntity(modelType, index) ==
    LET ex == extractFields(modelType, index)
        idField == extractIdField(ex.allFields)
        maps == makeFieldsByNameAndByDBName(ex.fields)
    IN  IF idField = Nil
        THEN [entity |-> Nil, err |-> ErrIdFieldDoesNotExists]
        ELSE [entity |->
                [Name |-> modelType.base.name,
                 ModelType |-> modelType,
                 Fields |-> ex.fields,
                 AllFields |-> ex.fields,
                 Collection |-> IF modelType.base.tabler # Nil
                                THEN modelType.base.tabler[1]
                                ELSE LowerFirst(modelType.base.name),
                 PrimaryField |-> Nil,
                 FieldsByName |-> maps.fieldsByName,
                 FieldsByDBName |-> maps.fieldsByDBName],
              err |-> Nil]

\* ------------------------------------------------------ the types in play
User == StructType("User", <<Decl("Id", "_id"), Decl("Name", "")>>, Nil)

Order == StructType("Order", <<Decl("Key", "_id"), Decl("Id", "_id")>>, <<"orders">>)

\* Note has no field whose key is "_id": Id keeps its default key "id".
Note == StructType("Note", <<Decl("Id", ""), Decl("Name", "-")>>, Nil)

Structs == {User, Order, Note}

\* T, *T, []T and []*T
Forms == {<<>>, <<"ptr">>, <<"slice">>, <<"slice", "ptr">>}

\* What a caller may pass as dest: the nil interface, an int, a [n]int, a
\* User in every form, an *Order, a Note.
Dests ==
    {Nil, TypeOf(<<>>, IntType), TypeOf(<<"array">>, IntType)}
        \cup {TypeOf(w, User) : w \in Forms}
        \cup {TypeOf(<<"ptr">>, Order), TypeOf(<<>>, Note)}

ModelTypes == {TypeOf(<<>>, b) : b \in Structs}

\* ----------------------------------------------------------------- state
VARIABLES
    cacheStore,   \* the sync.Map: a function from the stored keys to *Entity
    mutex,        \* the sync.Mutex: TRUE when locked
    heap,         \* the Entity objects allocated so far, by reference
    pc,           \* where each goroutine is in GetOrParse
    dest,         \* its argument
    modelType,    \* its local modelType
    entity,       \* its named result entity
    err,          \* its named result err
    path,         \* how its call went: "", "fast", "found", "built", "failed"
    after,        \* when its call began: first and the cache entry of its type
    first,        \* per type, the Entity the first successful call returned
    stores,       \* per type, the executions of cacheStore.Store
    builds,       \* per type, the successful completions of newEntity
    resolved,     \* per type, what lines 58-94 of newEntityByModelType yield
    probe,        \* a drawn struct type
    out,          \* what resolving probe returned
    value,        \* the instance handed to a field's accessors
    at,           \* the index path the accessors were set up with
    ret,          \* the accessor calls made on value so far and the last result
    mem,          \* the backing arrays of the []int slices allocated so far
    parent,       \* the index slice extractFields was called with
    captured,     \* the cloneIndex slices handed to newField so far
    pos           \* the loop variable i of extractFields

concVars == <<cacheStore, mutex, heap, pc, dest, modelType, entity, err, path,
              after, first, stores, builds, resolved>>

pureVars == <<probe, out>>

accVars == <<value, at, ret>>

sliceVars == <<mem, parent, captured, pos>>

vars == <<cacheStore, mutex, heap, pc, dest, modelType, entity, err, path,
          after, first, stores, builds, resolved, probe, out,
          value, at, ret, mem, parent, captured, pos>>

\* a reference to a heap object
Ref(n) == [ref |-> n]

\* sync.Map.Load and sync.Map.Store
Load(m, k) == MapGet(m, k)

Store(m, k, v) == MapPut(m, k, v)

NoHistory == [first |-> Nil, held |-> Nil]

InitConc ==
    /\ cacheStore = EmptyMap
    /\ mutex = FALSE
    /\ heap = EmptyMap
    /\ pc = [t \in Threads |-> "idle"]
    /\ dest = [t \in Threads |-> Nil]
    /\ modelType = [t \in Threads |-> Nil]
    /\ entity = [t \in Threads |-> Nil]
    /\ err = [t \in Threads |-> Nil]
    /\ path = [t \in Threads |-> ""]
    /\ after = [t \in Threads |-> NoHistory]
    /\ first = [k \in ModelTypes |-> Nil]
    /\ stores = [k \in ModelTypes |-> 0]
    /\ builds = [k \in ModelTypes |-> 0]
    /\ resolved = [k \in ModelTypes |-> BuildEntity(k, Nil)]

InitPure ==
    /\ probe = User
    /\ out = Nil

\* No accessor has been called and no index slice built.
InitAccessIdle ==
    /\ value = Nil
    /\ at = <<>>
    /\ ret = Nil

InitSliceIdle ==
    /\ mem = <<>>
    /\ parent = Nil
    /\ captured = <<>>
    /\ pos = 0

Init == InitConc /\ InitPure /\ InitAccessIdle /\ InitSliceIdle

\* A call on a dest of concrete type mt returns (e, x): the goroutine is done
\* with these results.
Returns(t, mt, e, x) ==
    /\ pc' = [pc EXCEPT ![t] = "done"]
    /\ entity' = [entity EXCEPT ![t] = e]
    /\ err' = [err EXCEPT ![t] = x]
    /\ first' = IF e # Nil /\ x = Nil /\ mt \in ModelTypes /\ first[mt] = Nil
                THEN [first EXCEPT ![mt] = e]
                ELSE first

\* GetOrParse lines 210-217: GetModelType calls reflect.ValueOf(dest).Type(),
\* which panics on the zero Value that ValueOf(nil) returns.
Call(t, d) ==
    /\ pc[t] = "idle"
    /\ dest' = [dest EXCEPT ![t] = d]
    /\ path' = [path EXCEPT ![t] = ""]
    /\ IF d = Nil
       THEN /\ pc' = [pc EXCEPT ![t] = "panic"]
            /\ UNCHANGED <<modelType, entity, err, after, first>>
       ELSE /\ modelType' = [modelType EXCEPT ![t] = GetModelType(d)]
            /\ after' = [after EXCEPT ![t] =
                           [first |-> IF StripWrappers(d) \in ModelTypes
                                      THEN first[StripWrappers(d)]
                                      ELSE Nil,
                            held |-> Load(cacheStore, StripWrappers(d)).v]]
            /\ IF Kind(GetModelType(d)) # "struct"
               THEN Returns(t, StripWrappers(d), Nil, ErrUnsupportedDataType)
               ELSE /\ pc' = [pc EXCEPT ![t] = "load"]
                    /\ UNCHANGED <<entity, err, first>>
    /\ UNCHANGED <<cacheStore, mutex, heap, stores, builds, resolved, probe, out,
                   accVars, sliceVars>>

\* GetOrParse without the fast path: every call goes on to the mutex.
FastLoad_AlwaysLocks(t) ==
    /\ pc[t] = "load"
    /\ pc' = [pc EXCEPT ![t] = "lock"]
    /\ UNCHANGED <<cacheStore, mutex, heap, dest, modelType, entity, err, path,
                   after, first, stores, builds, resolved, probe, out,
                   accVars, sliceVars>>

\* lines 219-221: the lock-free fast path.
FastLoad(t) ==
    /\ pc[t] = "load"
    /\ LET l == Load(cacheStore, modelType[t])
       IN  IF l.ok
           THEN /\ Returns(t, StripWrappers(dest[t]), l.v, Nil)
                /\ path' = [path EXCEPT ![t] = "fast"]
           ELSE /\ pc' = [pc EXCEPT ![t] = "lock"]
                /\ UNCHANGED <<entity, err, first, path>>
    /\ UNCHANGED <<cacheStore, mutex, heap, dest, modelType, after, stores, builds,
                   resolved, probe, out,
                   accVars, sliceVars>>

\* A Lock that does not wait for the mutex to be free.
Lock_NoWait(t) ==
    /\ pc[t] = "lock"
    /\ mutex' = TRUE
    /\ pc' = [pc EXCEPT ![t] = "recheck"]
    /\ UNCHANGED <<cacheStore, heap, dest, modelType, entity, err, path, after,
                   first, stores, builds, resolved, probe, out,
                   accVars, sliceVars>>

\* line 223: mutex.Lock() blocks while the mutex is locked.
Lock(t) ==
    /\ pc[t] = "lock"
    /\ mutex = FALSE
    /\ mutex' = TRUE
    /\ pc' = [pc EXCEPT ![t] = "recheck"]
    /\ UNCHANGED <<cacheStore, heap, dest, modelType, entity, err, path, after,
                   first, stores, builds, resolved, probe, out,
                   accVars, sliceVars>>

\* The slow path without the re-check: it always resolves.
Recheck_AlwaysMiss(t) ==
    /\ pc[t] = "recheck"
    /\ pc' = [pc EXCEPT ![t] = "newEntity"]
    /\ UNCHANGED <<cacheStore, mutex, heap, dest, modelType, entity, err, path,
                   after, first, stores, builds, resolved, probe, out,
                   accVars, sliceVars>>

\* The Store of line 232 moved after the if block: it also runs on a hit.
Recheck_StoreAlways(t) ==
    /\ pc[t] = "recheck"
    /\ IF Load(cacheStore, modelType[t]).ok
       THEN /\ pc' = [pc EXCEPT ![t] = "store"]
            /\ path' = [path EXCEPT ![t] = "found"]
       ELSE /\ pc' = [pc EXCEPT ![t] = "newEntity"]
            /\ UNCHANGED path
    /\ UNCHANGED <<cacheStore, mutex, heap, dest, modelType, entity, err, after,
                   first, stores, builds, resolved, probe, out,
                   accVars, sliceVars>>

\* line 227: the re-check under the mutex. On a hit the loaded value is
\* discarded (`_`), and line 235 returns the named result entity as it is.
Recheck(t) ==
    /\ pc[t] = "recheck"
    /\ IF Load(cacheStore, modelType[t]).ok
       THEN /\ pc' = [pc EXCEPT ![t] = "unlock"]
            /\ path' = [path EXCEPT ![t] = "found"]
       ELSE /\ pc' = [pc EXCEPT ![t] = "newEntity"]
            /\ UNCHANGED path
    /\ UNCHANGED <<cacheStore, mutex, heap, dest, modelType, entity, err, after,
                   first, stores, builds, resolved, probe, out,
                   accVars, sliceVars>>

\* newEntity and newEntityByModelType up to their cache check (lines 29-56),
\* called at line 228 with a dest that is a struct once stripped.
NewEntityLoad(t) ==
    /\ pc[t] = "newEntity"
    /\ LET mt == StripWrappers(dest[t])
           l == Load(cacheStore, mt)
       IN  IF l.ok
           THEN /\ entity' = [entity EXCEPT ![t] = l.v]
                /\ builds' = [builds EXCEPT ![mt] = @ + 1]
                /\ pc' = [pc EXCEPT ![t] = "store"]
           ELSE /\ pc' = [pc EXCEPT ![t] = "build"]
                /\ UNCHANGED <<entity, builds>>
    /\ UNCHANGED <<cacheStore, mutex, heap, dest, modelType, err, path, after,
                   first, stores, resolved, probe, out,
                   accVars, sliceVars>>

\* newEntityByModelType lines 58-94 and the return into lines 228-231.
NewEntityBuild(t) ==
    /\ pc[t] = "build"
    /\ LET mt == StripWrappers(dest[t])
           r == resolved[mt]
           e == Ref(Cardinality(DOMAIN heap) + 1)
       IN  IF r.err # Nil
           THEN /\ entity' = [entity EXCEPT ![t] = Nil]
                /\ err' = [err EXCEPT ![t] = r.err]
                /\ path' = [path EXCEPT ![t] = "failed"]
                /\ pc' = [pc EXCEPT ![t] = "unlock"]
                /\ UNCHANGED <<heap, builds>>
           ELSE /\ heap' = MapPut(heap, e, r.entity)
                /\ entity' = [entity EXCEPT ![t] = e]
                /\ builds' = [builds EXCEPT ![mt] = @ + 1]
                /\ path' = [path EXCEPT ![t] = "built"]
                /\ pc' = [pc EXCEPT ![t] = "store"]
                /\ UNCHANGED err
    /\ UNCHANGED <<cacheStore, mutex, dest, modelType, after, first, stores,
                   resolved, probe, out,
                   accVars, sliceVars>>

\* line 232: cacheStore.Store(modelType, entity)
StoreEntity(t) ==
    /\ pc[t] = "store"
    /\ cacheStore' = Store(cacheStore, modelType[t], entity[t])
    /\ stores' = [stores EXCEPT ![modelType[t]] = @ + 1]
    /\ pc' = [pc EXCEPT ![t] = "unlock"]
    /\ UNCHANGED <<mutex, heap, dest, modelType, entity, err, path, after, first,
                   builds, resolved, probe, out,
                   accVars, sliceVars>>

\* lines 224-226: the deferred mutex.Unlock(), then the return of line 230
\* (nil, err) or of line 235 (entity, nil).
Unlock(t) ==
    /\ pc[t] = "unlock"
    /\ mutex' = FALSE
    /\ IF err[t] # Nil
       THEN Returns(t, StripWrappers(dest[t]), Nil, err[t])
       ELSE Returns(t, StripWrappers(dest[t]), entity[t], Nil)
    /\ UNCHANGED <<cacheStore, heap, dest, modelType, path, after, stores, builds,
                   resolved, probe, out,
                   accVars, sliceVars>>

\* The caller takes the results; the goroutine may call again.
Return(t) ==
    /\ pc[t] = "done"
    /\ pc' = [pc EXCEPT ![t] = "idle"]
    /\ dest' = [dest EXCEPT ![t] = Nil]
    /\ modelType' = [modelType EXCEPT ![t] = Nil]
    /\ entity' = [entity EXCEPT ![t] = Nil]
    /\ err' = [err EXCEPT ![t] = Nil]
    /\ path' = [path EXCEPT ![t] = ""]
    /\ after' = [after EXCEPT ![t] = NoHistory]
    /\ UNCHANGED <<cacheStore, mutex, heap, first, stores, builds, resolved, probe, out,
                   accVars, sliceVars>>

Step(t) ==
    \/ FastLoad(t)
    \/ Lock(t)
    \/ Recheck(t)
    \/ NewEntityLoad(t)
    \/ NewEntityBuild(t)
    \/ StoreEntity(t)
    \/ Unlock(t)

Next ==
    \/ \E t \in Threads : \E d \in Dests : Call(t, d)
    \/ \E t \in Threads : FastLoad(t)
    \/ \E t \in Threads : Lock(t)
    \/ \E t \in Threads : Recheck(t)
    \/ \E t \in Threads : NewEntityLoad(t)
    \/ \E t \in Threads : NewEntityBuild(t)
    \/ \E t \in Threads : StoreEntity(t)
    \/ \E t \in Threads : Unlock(t)
    \/ \E t \in Threads : Return(t)

Spec == Init /\ [][Next]_vars

\* ------------------------------------------- resolution as a pure function
FieldNames == {"Id", "Key", "Name"}

Tags == {"", "-", "_id", "name"}

\* The field lists of at most MaxFields fields; a Go struct's field names are
\* distinct.
DeclLists ==
    {ds \in UNION {[1..n -> {Decl(nm, tg) : nm \in FieldNames, tg \in Tags}] : n \in 0..MaxFields} :
        \A i, j \in 1..Len(ds) : ds[i].Name = ds[j].Name => i = j}

\* Record types with an embedded record: Inner{A, B} embedded by value, with
\* or without the inline directive, before or after the root's own field C.
\* The identity key is on A, on C or on both.
InnerTypes ==
    {StructType("Inner", <<Decl("A", ta), Decl("B", "")>>, Nil) : ta \in {"", "_id"}}

EmbedDeclLists ==
    UNION {{<<DeclOf("Inner", te, TypeOf(<<>>, in)), Decl("C", tc)>>,
            <<Decl("C", tc), DeclOf("Inner", te, TypeOf(<<>>, in))>>} :
           in \in InnerTypes, te \in {"", ",inline"}, tc \in {"", "_id"}}

ProbeTypes == {StructType("Probe", ds, Nil) : ds \in DeclLists \cup EmbedDeclLists}

InitResolve ==
    /\ InitConc
    /\ probe \in ProbeTypes
    /\ out = Nil
    /\ InitAccessIdle
    /\ InitSliceIdle

\* newEntityByModelType(probe, nil) with an empty cache.
Resolve ==
    /\ out = Nil
    /\ out' = BuildEntity(TypeOf(<<>>, probe), Nil)
    /\ UNCHANGED <<probe, concVars, accVars, sliceVars>>

\* Another type is resolved next.
Redraw ==
    /\ out # Nil
    /\ probe' \in ProbeTypes
    /\ out' = Nil
    /\ UNCHANGED <<concVars, accVars, sliceVars>>

NextResolve == Resolve \/ Redraw

SpecResolve == InitResolve /\ [][NextResolve]_vars

\* ------------------------------------------------------------- the claims
\* A record type GetOrParse supports: resolving it succeeds.
Supported(mt) == mt \in ModelTypes /\ BuildEntity(mt, Nil).err = Nil

\* The goroutine's call has returned (entity[t], err[t]).
Done(t) == pc[t] = "done"

\* C1: every GetOrParse call on a supported record type T, whatever the
\* interleaving with the other callers, returns a nil error and the one
\* non-nil Entity the cache holds for T, also when it missed on the fast path,
\* waited for the mutex and found the entry on the re-check.
C1_EveryCallerGetsTheEntity ==
    \A t \in Threads :
        Done(t) /\ Supported(modelType[t]) =>
            /\ err[t] = Nil
            /\ entity[t] # Nil
            /\ Load(cacheStore, modelType[t]).ok
            /\ entity[t] = cacheStore[modelType[t]]

\* C2: per concrete type, newEntity completes successfully at most once and
\* cacheStore.Store runs at most once, in every interleaving.
C2_ResolvedAndStoredAtMostOnce ==
    \A k \in ModelTypes : builds[k] <= 1 /\ stores[k] <= 1

\* C2's case: User was resolved and stored once although a second caller
\* also missed on the fast path and went through the mutex.
C2_Witness ==
    /\ builds[TypeOf(<<>>, User)] = 1
    /\ stores[TypeOf(<<>>, User)] = 1
    /\ \E t \in Threads :
         Done(t) /\ StripWrappers(dest[t]) = TypeOf(<<>>, User) /\ path[t] = "found"

\* C3: a call that begins after a call on the same concrete type T has
\* returned an Entity returns that very Entity with a nil error, whichever of
\* T, *T, []T, []*T it is given.
C3_LaterCallsReturnTheFirstEntity ==
    \A t \in Threads :
        Done(t) /\ after[t].first # Nil => err[t] = Nil /\ entity[t] = after[t].first

\* C3's case: a call on a User built the Entity and returned it, and a later
\* call on a []*User returned the same reference.
C3_Witness ==
    \E a, b \in Threads :
        /\ Done(a) /\ dest[a] = TypeOf(<<>>, User) /\ path[a] = "built"
        /\ Done(b) /\ dest[b] = TypeOf(<<"slice", "ptr">>, User)
        /\ after[b].first = entity[a]
        /\ entity[b] = entity[a]
        /\ entity[a] # Nil

\* The goroutine holds the mutex: it is between Lock and the deferred Unlock.
Holds(t) == pc[t] \in {"recheck", "newEntity", "build", "store", "unlock"}

\* The goroutine is running newEntity.
Resolving(t) == pc[t] \in {"newEntity", "build"}

\* C4 as stated: a caller with an uncached type is never made to wait while
\* another caller resolves a different type.
C4_NeverWaitsForAnotherType ==
    \A a, b \in Threads :
        ~ /\ Resolving(a)
          /\ pc[b] = "lock"
          /\ modelType[a] # modelType[b]
          /\ ~Load(cacheStore, modelType[b]).ok

\* C4 amended: resolution is serialised by the one mutex. At most one
\* goroutine is between Lock and Unlock, whatever the types, and the mutex is
\* locked exactly while one is.
C4_ResolutionIsSerialised ==
    /\ \A a, b \in Threads : Holds(a) /\ Holds(b) => a = b
    /\ mutex <=> \E t \in Threads : Holds(t)

\* C4's case: one caller is resolving User while a caller of Order, also
\* uncached, waits at the mutex.
C4_Witness ==
    \E a, b \in Threads :
        /\ pc[a] = "build" /\ modelType[a] = TypeOf(<<>>, User)
        /\ pc[b] = "lock" /\ modelType[b] = TypeOf(<<>>, Order)
        /\ ~Load(cacheStore, modelType[b]).ok

\* C5: a call that begins when the cache holds its type never reaches Lock:
\* its fast-path load can run whoever holds the mutex, and it returns the
\* cached Entity with a nil error. And a goroutine inside GetOrParse that
\* cannot step is waiting at Lock for a locked mutex.
C5_HitNeverTakesTheMutex ==
    \A t \in Threads :
        /\ after[t].held # Nil =>
              /\ pc[t] \in {"load", "done"}
              /\ pc[t] = "load" => ENABLED FastLoad(t)
              /\ Done(t) =>
                    path[t] = "fast" /\ err[t] = Nil /\ entity[t] = after[t].held
        /\ pc[t] \notin {"idle", "done", "panic"} /\ ~ENABLED Step(t) =>
              pc[t] = "lock" /\ mutex

\* C5's case: a call on a cached User returned on the fast path while another
\* goroutine holds the mutex, resolving Order.
C5_Witness ==
    \E a, b \in Threads :
        /\ Done(a) /\ path[a] = "fast" /\ modelType[a] = TypeOf(<<>>, User)
        /\ after[a].held # Nil /\ entity[a] = after[a].held
        /\ pc[b] = "build" /\ modelType[b] = TypeOf(<<>>, Order)
        /\ mutex

\* No declared field of the struct type that is kept has the key "_id".
HasNoIdField(mt) ==
    \A i \in 1..Len(mt.base.fields) :
        LET tags == parseTags(LowerFirst(mt.base.fields[i].Name), mt.base.fields[i].Tag)
        IN  tags.Skip \/ tags.Name # "_id"

\* C6: for a record type with no "_id" field, every call returns a nil Entity
\* and the missing-identity error after running the resolution itself, and the
\* cache never holds an entry for the type.
C6_NoIdFieldNeverCached ==
    /\ \A k \in DOMAIN cacheStore : ~HasNoIdField(k)
    /\ \A t \in Threads :
         Done(t) /\ Kind(StripWrappers(dest[t])) = "struct"
                 /\ HasNoIdField(StripWrappers(dest[t])) =>
            /\ entity[t] = Nil
            /\ err[t] = ErrIdFieldDoesNotExists
            /\ path[t] = "failed"

\* C6's case: two calls on Note have both run the resolution and failed.
C6_Witness ==
    \A t \in Threads :
        /\ Done(t) /\ dest[t] = TypeOf(<<>>, Note)
        /\ path[t] = "failed" /\ err[t] = ErrIdFieldDoesNotExists

\* C7: GetOrParse on nil, on a primitive or on a slice/array/pointer of one
\* ends by returning a nil Entity and the unsupported-data-type error; no
\* such call ends in a panic.
C7_NonRecordReturnsUnsupported ==
    \A t \in Threads :
        /\ pc[t] # "panic"
        /\ Done(t) /\ Kind(StripWrappers(dest[t])) # "struct" =>
              entity[t] = Nil /\ err[t] = ErrUnsupportedDataType

\* C8: no call is stuck. A goroutine inside GetOrParse that has not returned
\* can take its next step, or waits at Lock for a mutex whose holder can take
\* its next step.
C8_NoCallIsStuck ==
    \A t \in Threads :
        pc[t] \notin {"idle", "done"} =>
            \/ ENABLED Step(t)
            \/ /\ pc[t] = "lock"
               /\ \E u \in Threads : Holds(u) /\ ENABLED Step(u)

\* C9: a cache entry is the Entity a completed resolution of its key built,
\* and no step replaces or removes it or changes the Entity it refers to.
C9_EntriesNeverChange ==
    [][\A k \in DOMAIN cacheStore :
          /\ cacheStore[k] \in DOMAIN heap
          /\ k \in ModelTypes
          /\ resolved[k].err = Nil
          /\ heap[cacheStore[k]] = resolved[k].entity
          /\ k \in DOMAIN cacheStore'
          /\ cacheStore'[k] = cacheStore[k]
          /\ cacheStore[k] \in DOMAIN heap'
          /\ heap'[cacheStore[k]] = heap[cacheStore[k]]]_vars

\* C9's case: both User and Order are cached, and a caller has since gone
\* through the slow path and found its entry on the re-check.
C9_Witness ==
    /\ DOMAIN cacheStore = {TypeOf(<<>>, User), TypeOf(<<>>, Order)}
    /\ \E t \in Threads : Done(t) /\ path[t] = "found"

\* The first field of the list with the given key under the given attribute.
RECURSIVE FirstWith(_, _, _)
FirstWith(fields, attr, key) ==
    IF fields = <<>> THEN Nil
    ELSE IF Head(fields)[attr] = key THEN Head(fields)
    ELSE FirstWith(Tail(fields), attr, key)

\* C10: in a resolved Entity both lookup maps are total over Fields and map
\* each key to the first field declared with it.
C10_MapsHoldTheFirstField ==
    out # Nil /\ out.err = Nil =>
        \A i \in 1..Len(out.entity.Fields) :
            LET f == out.entity.Fields[i]
            IN  /\ f.DBName \in DOMAIN out.entity.FieldsByDBName
                /\ out.entity.FieldsByDBName[f.DBName] =
                       FirstWith(out.entity.Fields, "DBName", f.DBName)
                /\ f.Name \in DOMAIN out.entity.FieldsByName
                /\ out.entity.FieldsByName[f.Name] =
                       FirstWith(out.entity.Fields, "Name", f.Name)

\* ------------------------------------------------ the accessors of a field
\* Root has a builtin field, a value-embedded record and a pointer-embedded
\* record; the embedded record has a pointer to a record of its own.
Leaf == StructType("Leaf", <<Decl("X", "")>>, Nil)

Nested ==
    StructType("Nested", <<Decl("V", ""), DeclOf("L", "", TypeOf(<<"ptr">>, Leaf))>>, Nil)

Root ==
    StructType("Root", <<Decl("A", ""),
                         DeclOf("In", "", TypeOf(<<>>, Nested)),
                         DeclOf("P", "", TypeOf(<<"ptr">>, Nested))>>, Nil)

RootType == TypeOf(<<>>, Root)

\* The index paths of the fields under a type, each with the field's type: a
\* non-negative entry descends into the struct field at that position, a
\* negative entry through the pointer-to-struct field at position -entry-1,
\* and the last entry, the field itself, is non-negative.
RECURSIVE IndexPaths(_)
IndexPaths(ty) ==
    UNION {LET ft == ty.base.fields[i].Type
           IN  {[index |-> <<i - 1>>, fieldType |-> ft]} \cup
               (IF Kind(ft) = "struct"
                THEN {[index |-> <<i - 1>> \o q.index, fieldType |-> q.fieldType] :
                        q \in IndexPaths(ft)}
                ELSE IF Kind(ft) = "ptr" /\ Kind(Elem(ft)) = "struct"
                THEN {[index |-> <<0 - i>> \o q.index, fieldType |-> q.fieldType] :
                        q \in IndexPaths(Elem(ft))}
                ELSE {})
           : i \in 1..Len(ty.base.fields)}

MaxInt == 1              \* the int values of a drawn instance are 0..MaxInt

\* The values of a type.
RECURSIVE Values(_)
Values(ty) ==
    IF Kind(ty) = "ptr"
    THEN {PtrV(<<>>)} \cup {PtrV(<<v>>) : v \in Values(Elem(ty))}
    ELSE IF Kind(ty) = "struct"
    THEN LET n == Len(ty.base.fields)
             all == UNION {Values(ty.base.fields[i].Type) : i \in 1..n}
         IN  {StructV(fs) : fs \in {g \in [1..n -> all] :
                                      \A i \in 1..n : g[i] \in Values(ty.base.fields[i].Type)}}
    ELSE {IntV(n) : n \in 0..MaxInt}

\* ret: the last accessor call on value (op), the instance the calls started
\* from and the one before the last call, the location ReflectValueOf
\* returned, the x written to it, and what ValueOf returned.
InitAccess ==
    /\ InitConc
    /\ InitPure
    /\ InitSliceIdle
    /\ value \in Values(RootType)
    /\ at \in IndexPaths(RootType)
    /\ ret = [op |-> "none", start |-> value, before |-> value,
              loc |-> PanicValue, x |-> Nil, res |-> Nil]

\* field.ValueOf(value) on the untouched instance
CallValueOf ==
    /\ ret.op = "none"
    /\ ret' = [ret EXCEPT !.op = "ValueOf",
                          !.res = ValueOf(at.index, at.fieldType, RootType, value)]
    /\ UNCHANGED <<value, at, concVars, pureVars, sliceVars>>

\* field.ReflectValueOf(value) on the untouched instance
CallReflectValueOf ==
    /\ ret.op = "none"
    /\ LET r == ReflectValueOf(at.index, at.fieldType, RootType, value)
       IN  /\ value' = r.obj
           /\ ret' = [ret EXCEPT !.op = "ReflectValueOf", !.before = value, !.loc = r.loc]
    /\ UNCHANGED <<at, concVars, pureVars, sliceVars>>

\* field.ReflectValueOf(value).Set(x)
SetValue ==
    /\ ret.op = "ReflectValueOf"
    /\ ~ret.loc.panic
    /\ \E x \in Values(at.fieldType) :
          /\ value' = SetAt(value, ret.loc.route, x)
          /\ ret' = [ret EXCEPT !.op = "Set", !.before = value, !.x = x]
    /\ UNCHANGED <<at, concVars, pureVars, sliceVars>>

\* field.ValueOf(value) after the write
ReadBack ==
    /\ ret.op = "Set"
    /\ ret' = [ret EXCEPT !.op = "ReadBack", !.before = value,
                          !.res = ValueOf(at.index, at.fieldType, RootType, value)]
    /\ UNCHANGED <<value, at, concVars, pureVars, sliceVars>>

NextAccess == CallValueOf \/ CallReflectValueOf \/ SetValue \/ ReadBack

SpecAccess == InitAccess /\ [][NextAccess]_vars

\* ------------------------------------------------ the index slices
\* A Go []int is a header [arr, len, cap] over a backing array in mem; the
\* nil slice has no array.
NilSlice == [arr |-> 0, len |-> 0, cap |-> 0]

\* The elements a slice header reads from the backing arrays.
Elements(m, sl) == [j \in 1..sl.len |-> m[sl.arr][j]]

\* make([]int, n, c)
MakeSlice(m, n, c) ==
    [mem |-> Append(m, [j \in 1..c |-> 0]),
     slice |-> [arr |-> Len(m) + 1, len |-> n, cap |-> c]]

\* copy(dst, src)
CopySlice(m, dst, src) ==
    LET n == IF dst.len < src.len THEN dst.len ELSE src.len
    IN  IF n = 0 THEN m
        ELSE [m EXCEPT ![dst.arr] =
                 [j \in 1..dst.cap |-> IF j <= n THEN m[src.arr][j] ELSE @[j]]]

\* append(sl, x): in place when the capacity allows, else into a new array of
\* twice the capacity.
AppendSlice(m, sl, x) ==
    IF sl.len < sl.cap
    THEN [mem |-> [m EXCEPT ![sl.arr][sl.len + 1] = x],
          slice |-> [sl EXCEPT !.len = @ + 1]]
    ELSE LET c == IF sl.cap = 0 THEN 1 ELSE 2 * sl.cap
         IN  [mem |-> Append(m, [j \in 1..c |-> IF j <= sl.len THEN m[sl.arr][j]
                                                ELSE IF j = sl.len + 1 THEN x ELSE 0]),
              slice |-> [arr |-> Len(m) + 1, len |-> sl.len + 1, cap |-> c]]

\* cloneIndex built by appending to the caller's slice itself.
cloneIndexOf_Shared(m, index, i) == AppendSlice(m, index, i)

\* extractFields lines 102-104: cloneIndex for field i.
cloneIndexOf(m, index, i) ==
    LET made == MakeSlice(m, index.len, index.len + 1)
    IN  AppendSlice(CopySlice(made.mem, made.slice, index), made.slice, i)

MaxPath == 2             \* entries of the index extractFields is called with
MaxSpare == 1            \* spare capacity of that slice

\* extractFields(probe, index) is entered: index is nil, or a slice of up to
\* MaxPath entries with up to MaxSpare unused slots after them; parent.was
\* remembers its elements.
InitPath ==
    /\ InitConc
    /\ InitAccessIdle
    /\ probe \in ProbeTypes
    /\ out = Nil
    /\ captured = <<>>
    /\ pos = 0
    /\ \E n \in 0..MaxPath, spare \in 0..MaxSpare :
          \E elems \in [1..n -> 0..1] :
             IF n + spare = 0
             THEN mem = <<>> /\ parent = [index |-> NilSlice, was |-> <<>>]
             ELSE /\ mem = <<[j \in 1..(n + spare) |-> IF j <= n THEN elems[j] ELSE 0]>>
                  /\ parent = [index |-> [arr |-> 1, len |-> n, cap |-> n + spare],
                               was |-> elems]

\* One iteration of the loop of extractFields (lines 100-130): cloneIndex is
\* built, and unless the field is skipped newField hands it to
\* setupValuerAndSetter, whose closures keep the slice.
ExtendPath ==
    /\ pos < Len(probe.fields)
    /\ LET built == cloneIndexOf(mem, parent.index, pos)
           structField == probe.fields[pos + 1]
           structTags == parseTags(LowerFirst(structField.Name), structField.Tag)
       IN  /\ mem' = built.mem
           /\ captured' = IF structTags.Skip THEN captured
                          ELSE Append(captured, [i |-> pos, index |-> built.slice])
    /\ pos' = pos + 1
    /\ UNCHANGED <<parent, probe, out, concVars, accVars>>

NextPath == ExtendPath

SpecPath == InitPath /\ [][NextPath]_vars

\* --------------------------------------------------------- Entity methods
\* Entity.LookUpField: the document-key map first, then the name map.
LookUpField(th, name) ==
    IF MapGet(th.FieldsByDBName, name).ok THEN MapGet(th.FieldsByDBName, name).v
    ELSE IF MapGet(th.FieldsByName, name).ok THEN MapGet(th.FieldsByName, name).v
    ELSE Nil

\* Entity.PrimaryKeyDBName
PrimaryKeyDBName(th) ==
    IF th.PrimaryField # Nil THEN th.PrimaryField.DBName ELSE "_id"

\* The keys looked up: every declared name, every document key, and one that
\* no field has.
LookupKeys == FieldNames \cup {"id", "key", "name", "_id", "missing"}

\* Resolving probe succeeded and returned the Entity out.entity.
ResolvedOk == out # Nil /\ out.err = Nil

\* C11: LookUpField(key) returns the first direct field whose DBName is key,
\* otherwise the first direct field whose Name is key, and nil only when no
\* direct field has key as its DBName or its Name.
C11_LookUpFindsTheField ==
    ResolvedOk =>
        \A key \in LookupKeys :
            LookUpField(out.entity, key) =
                IF FirstWith(out.entity.Fields, "DBName", key) # Nil
                THEN FirstWith(out.entity.Fields, "DBName", key)
                ELSE FirstWith(out.entity.Fields, "Name", key)

\* C12: a resolved Entity has exactly one field marked Id in AllFields.
C12_ExactlyOneIdField ==
    ResolvedOk =>
        Cardinality({i \in 1..Len(out.entity.AllFields) : out.entity.AllFields[i].Id}) = 1

\* The leaf fields a list of declarations contributes, in declaration order:
\* a skipped field none, an embedded record those of its own declarations.
RECURSIVE LeafNames(_)
LeafNames(decls) ==
    IF decls = <<>> THEN <<>>
    ELSE LET d == Head(decls)
         IN  (IF parseTags(LowerFirst(d.Name), d.Tag).Skip THEN <<>>
              ELSE IF Kind(d.Type) = "struct" THEN LeafNames(d.Type.base.fields)
              ELSE <<d.Name>>) \o LeafNames(Tail(decls))

HasEmbedded(decls) == \E i \in 1..Len(decls) : Kind(decls[i].Type) = "struct"

\* C13: for a type with an embedded record, AllFields holds exactly the leaf
\* fields in declaration order (the embedded record's fields in its place),
\* Fields holds one entry per direct field, and so the two lists differ.
C13_EmbeddedFieldsAreFlattened ==
    (ResolvedOk /\ HasEmbedded(probe.fields)) =>
        /\ [i \in 1..Len(out.entity.AllFields) |-> out.entity.AllFields[i].Name]
               = LeafNames(probe.fields)
        /\ [i \in 1..Len(out.entity.Fields) |-> out.entity.Fields[i].Name]
               = [i \in 1..Len(probe.fields) |-> probe.fields[i].Name]
        /\ out.entity.AllFields # out.entity.Fields

\* C16: a resolved Entity records its identity field: PrimaryField is the
\* first field marked Id, and PrimaryKeyDBName returns that field's key.
C16_PrimaryFieldIsRecorded ==
    ResolvedOk =>
        /\ out.entity.PrimaryField # Nil
        /\ out.entity.PrimaryField = FirstWith(out.entity.AllFields, "Id", TRUE)
        /\ PrimaryKeyDBName(out.entity) = out.entity.PrimaryField.DBName

\* ------------------------------------------------------ accessor claims
\* Reading through a route that may cross a nil pointer: Nil when it does.
RECURSIVE SafeAt(_, _)
SafeAt(obj, route) ==
    IF route = <<>> THEN obj
    ELSE IF Head(route) = Deref
         THEN IF obj.to = <<>> THEN Nil ELSE SafeAt(obj.to[1], Tail(route))
         ELSE SafeAt(obj.fields[Head(route) + 1], Tail(route))

\* The routes of the pointer links an index path passes through before its
\* final element, r being the route reached before entry k.
RECURSIVE LinkRoutesFrom(_, _, _)
LinkRoutesFrom(index, k, r) ==
    IF k >= Len(index) THEN {}
    ELSE IF index[k] >= 0 THEN LinkRoutesFrom(index, k + 1, Append(r, index[k]))
    ELSE LET link == Append(r, (0 - index[k]) - 1)
         IN  {link} \cup LinkRoutesFrom(index, k + 1, Append(link, Deref))

LinkRoutes(index) == LinkRoutesFrom(index, 1, <<>>)

AllLinksSet(obj, index) ==
    \A r \in LinkRoutes(index) : SafeAt(obj, r) # Nil /\ ~IsNil(SafeAt(obj, r))

SomeLinkNil(obj, index) == LinkRoutes(index) # {} /\ ~AllLinksSet(obj, index)

\* The first nil link of the path in obj.
FirstNilLink(obj, index) ==
    CHOOSE r \in LinkRoutes(index) :
        /\ SafeAt(obj, r) # Nil /\ IsNil(SafeAt(obj, r))
        /\ \A q \in LinkRoutes(index) : Len(q) < Len(r) => ~IsNil(SafeAt(obj, q))

\* C14: when the path passes through a pointer-to-struct link that is nil in
\* the instance, ReflectValueOf does not panic, leaves every link before the
\* final element non-nil and changes nothing outside the first nil link,
\* while ValueOf on the untouched instance returns (nil, true) without a
\* panic and leaves the instance as it was.
C14_NilLinksAreAllocatedOnlyByReflectValueOf ==
    SomeLinkNil(ret.start, at.index) =>
        /\ ret.op = "ReflectValueOf" =>
              /\ ~ret.loc.panic
              /\ AllLinksSet(value, at.index)
              /\ SetAt(value, FirstNilLink(ret.start, at.index), PtrV(<<>>)) = ret.start
        /\ ret.op = "ValueOf" =>
              /\ ret.res = Absent
              /\ value = ret.start
              /\ ~AllLinksSet(value, at.index)

C14_Witness ==
    /\ SomeLinkNil(ret.start, at.index)
    /\ Cardinality(LinkRoutes(at.index)) = 2
    /\ ret.op = "ReflectValueOf"
    /\ AllLinksSet(value, at.index)

\* The locations of the int and pointer values of an instance.
RECURSIVE ScalarRoutesFrom(_, _)
ScalarRoutesFrom(v, r) ==
    IF v.kind = "struct"
    THEN UNION {ScalarRoutesFrom(v.fields[i], Append(r, i - 1)) : i \in 1..Len(v.fields)}
    ELSE IF v.kind = "ptr" /\ ~IsNil(v)
    THEN {r} \cup ScalarRoutesFrom(v.to[1], Append(r, Deref))
    ELSE {r}

ScalarRoutes(obj) == ScalarRoutesFrom(obj, <<>>)

IsPrefix(r, q) == Len(r) <= Len(q) /\ SubSeq(q, 1, Len(r)) = r

\* Location r of the instance holds what it held at the start.
Kept(r) ==
    /\ SafeAt(value, r) # Nil
    /\ SafeAt(value, r).kind = ReadAt(ret.start, r).kind
    /\ SafeAt(value, r).val = ReadAt(ret.start, r).val
    /\ IsNil(SafeAt(value, r)) = IsNil(ReadAt(ret.start, r))

\* The write went to a fresh instance and has been read back.
FreshRoundTrip == ret.start = ZeroV(RootType) /\ ret.op = "ReadBack"

ReadsBackWhatWasWritten ==
    /\ ~ret.res.panic
    /\ ret.res.val = ret.x
    /\ ret.res.zero = IsZero(ret.x)

Specialised == Len(at.index) = 1 \/ (Len(at.index) = 2 /\ at.index[1] >= 0)

\* C18: for a path of length 1, or of length 2 with a non-negative first
\* entry, ValueOf and ReflectValueOf return what the general walk returns on
\* the same instance and leave the instance as the general walk leaves it.
C18_SpecialisedShapesEqualTheWalk ==
    Specialised =>
        /\ ret.op = "ValueOf" =>
              /\ ret.res = valueOfWalk(at.index, RootType, ret.before)
              /\ value = ret.before
        /\ ret.op = "ReflectValueOf" =>
              [loc |-> ret.loc, obj |-> value] = reflectOfWalk(at.index, RootType, ret.before)

\* C17: the path every field's accessors hold is the caller's index followed
\* by the field's position, whatever was built after it, and the caller's
\* index still has the elements it was passed with.
C17_PathsAreCopiedAndAppended ==
    /\ Elements(mem, parent.index) = parent.was
    /\ \A k \in 1..Len(captured) :
          Elements(mem, captured[k].index) = Append(parent.was, captured[k].i)

C17_Witness ==
    /\ Len(captured) >= 2
    /\ parent.was # <<>>
    /\ parent.index.len < parent.index.cap
    /\ pos = Len(probe.fields)

====
